---- MODULE Spec2Model ----
(***************************************************************************)
(* ShopGPT chat front end: the Index page (conversation state and          *)
(* handleSendMessage) together with the ChatInput composer.                *)
(*                                                                         *)
(* Every handler runs to its next await as one step (single-threaded       *)
(* event loop).  handleSendMessage has two suspension points: the fetch    *)
(* and the decoding of the body (response.json()).                         *)
(***************************************************************************)
EXTENDS Integers, Sequences, FiniteSets, TLC

VARIABLES
    messages,      \* Index: useState<Message[]>
    isLoading,     \* Index: useState(false)               ("pending")
    sessionIdRef,  \* Index: useRef<string | null>(null)   (.current)
    input,         \* ChatInput: useState("")              (the draft)
    calls,         \* every handleSendMessage invocation, in call order
    toasts,        \* number of toast({... "destructive"}) notifications
    directCalls,   \* handleSendMessage invocations not made by the composer
    event          \* the handler that ran last and what it decided

vars == <<messages, isLoading, sessionIdRef, input, calls, toasts, directCalls, event>>

----------------------------------------------------------------------------
(* Bounds *)

MaxLen == 2       \* longest draft typed into the composer
MaxCalls == 3     \* handleSendMessage invocations explored
MaxDirect == 2    \* invocations explored when callers other than the composer take part

----------------------------------------------------------------------------
(* JavaScript values.  Strings are sequences of one-character strings.     *)

Undefined == [t |-> "undefined"]
Null == [t |-> "null"]
Str(s) == [t |-> "string", v |-> s]
Arr(s) == [t |-> "array", v |-> s]
Num(n) == [t |-> "number", v |-> n]     \* n counts tenths: Num(45) is 4.5
Bool(b) == [t |-> "boolean", v |-> b]

\* ToBoolean, for the values that occur here
Truthy(x) ==
    CASE x.t = "undefined" -> FALSE
      [] x.t = "null" -> FALSE
      [] x.t = "string" -> x.v # << >>
      [] x.t = "number" -> x.v # 0
      [] x.t = "boolean" -> x.v
      [] OTHER -> TRUE

Chars == {" ", "a"}

RECURSIVE SeqsUpTo(_, _)
SeqsUpTo(S, n) ==
    IF n = 0 THEN {<< >>}
    ELSE LET shorter == SeqsUpTo(S, n - 1)
         IN  shorter \cup {Append(s, c) : s \in shorter, c \in S}

Drafts == SeqsUpTo(Chars, MaxLen)

IsSpace(c) == c = " "

RECURSIVE TrimStart(_)
TrimStart(s) ==
    IF s # << >> /\ IsSpace(Head(s)) THEN TrimStart(Tail(s)) ELSE s

RECURSIVE TrimEnd(_)
TrimEnd(s) ==
    IF s # << >> /\ IsSpace(s[Len(s)]) THEN TrimEnd(SubSeq(s, 1, Len(s) - 1)) ELSE s

\* String.prototype.trim
Trim(s) == TrimEnd(TrimStart(s))

----------------------------------------------------------------------------
(* The wire: what the server may answer *)

Statuses == {200, 500}

\* Response.ok
ResponseOk(status) == status >= 200 /\ status <= 299

TokenA == <<"s", "1">>
TokenB == <<"s", "2">>

SessionIds == {Undefined, Str(<< >>), Str(TokenA), Str(TokenB)}
ReplyText == Str(<<"o", "k">>)

Body(session_id, message, products) ==
    [t |-> "object", session_id |-> session_id, message |-> message,
     products |-> products]

\* the values response.json() may resolve to: null, replies with each shape
\* of session_id, and replies that leave out message or products
Bodies ==
    {Null} \cup
    {Body(s, ReplyText, Arr(<< >>)) : s \in SessionIds} \cup
    {Body(Str(TokenA), Undefined, Arr(<< >>)),
     Body(Undefined, ReplyText, Undefined)}

----------------------------------------------------------------------------
(* Index *)

Greeting == Str(<<"H", "e", "l", "l", "o">>)

Message(role, content, products) ==
    [role |-> role, content |-> content, products |-> products]

InitialMessages == <<Message("assistant", Greeting, Undefined)>>

\* <ChatInput onSend={handleSendMessage} disabled={isLoading} />
disabled == isLoading

\* calls still awaiting the fetch or the body
InFlight == {i \in 1..Len(calls) : calls[i].pc \in {"fetch", "json"}}

\* handleSendMessage putting the new User message in front of the list
handleSendMessage_Prepends(message) ==
    /\ messages' = <<Message("user", Str(message), Undefined)>> \o messages
    /\ isLoading' = TRUE
    /\ calls' = Append(calls, [content |-> Str(message),
                               session_id |-> sessionIdRef,
                               pc |-> "fetch",
                               data |-> Undefined])
    /\ UNCHANGED <<sessionIdRef, toasts>>

\* handleSendMessage that issues the request without showing the User message
handleSendMessage_NoUserMessage(message) ==
    /\ messages' = messages
    /\ isLoading' = TRUE
    /\ calls' = Append(calls, [content |-> Str(message),
                               session_id |-> sessionIdRef,
                               pc |-> "fetch",
                               data |-> Undefined])
    /\ UNCHANGED <<sessionIdRef, toasts>>

\* handleSendMessage up to its first await: the User message, the loading
\* flag and the request that is handed to fetch
handleSendMessage(message) ==
    /\ messages' = Append(messages, Message("user", Str(message), Undefined))
    /\ isLoading' = TRUE
    /\ calls' = Append(calls, [content |-> Str(message),
                               session_id |-> sessionIdRef,
                               pc |-> "fetch",
                               data |-> Undefined])
    /\ UNCHANGED <<sessionIdRef, toasts>>

\* a catch block that also shows the error as an Assistant message
CatchFinally_AppendsErrorMessage(i) ==
    /\ toasts' = toasts + 1
    /\ isLoading' = FALSE
    /\ calls' = [calls EXCEPT ![i].pc = "failed"]
    /\ messages' = Append(messages,
                          Message("assistant", Str(<<"E", "r", "r">>), Undefined))
    /\ UNCHANGED <<sessionIdRef, input>>

\* a catch block that also forgets the session
CatchFinally_ClearsSession(i) ==
    /\ toasts' = toasts + 1
    /\ isLoading' = FALSE
    /\ calls' = [calls EXCEPT ![i].pc = "failed"]
    /\ sessionIdRef' = Null
    /\ UNCHANGED <<messages, input>>

\* a catch block that only logs the error
CatchFinally_NoToast(i) ==
    /\ toasts' = toasts
    /\ isLoading' = FALSE
    /\ calls' = [calls EXCEPT ![i].pc = "failed"]
    /\ UNCHANGED <<messages, sessionIdRef, input>>

\* catch { toast(...) } finally { setIsLoading(false) }
CatchFinally(i) ==
    /\ toasts' = toasts + 1
    /\ isLoading' = FALSE
    /\ calls' = [calls EXCEPT ![i].pc = "failed"]
    /\ UNCHANGED <<messages, sessionIdRef, input>>

\* the fetch promise rejects (network failure)
FetchReject(i) ==
    /\ i \in 1..Len(calls)
    /\ calls[i].pc = "fetch"
    /\ CatchFinally(i)
    /\ event' = [op |-> "fetchReject", call |-> i]
    /\ UNCHANGED directCalls

\* a response handler that drops the loading flag as soon as the headers are in
FetchResolve_ResetsEarly(i, status) ==
    /\ i \in 1..Len(calls)
    /\ calls[i].pc = "fetch"
    /\ IF ~ResponseOk(status)
       THEN CatchFinally(i)
       ELSE /\ calls' = [calls EXCEPT ![i].pc = "json"]
            /\ isLoading' = FALSE
            /\ UNCHANGED <<messages, sessionIdRef, input, toasts>>
    /\ event' = [op |-> "fetchResolve", call |-> i, status |-> status]
    /\ UNCHANGED directCalls

\* the fetch promise resolves with a response of the given status
FetchResolve(i, status) ==
    /\ i \in 1..Len(calls)
    /\ calls[i].pc = "fetch"
    /\ IF ~ResponseOk(status)
       THEN CatchFinally(i)
       ELSE /\ calls' = [calls EXCEPT ![i].pc = "json"]
            /\ UNCHANGED <<messages, isLoading, sessionIdRef, input, toasts>>
    /\ event' = [op |-> "fetchResolve", call |-> i, status |-> status]
    /\ UNCHANGED directCalls

\* response.json() rejects (the body does not decode)
JsonReject(i) ==
    /\ i \in 1..Len(calls)
    /\ calls[i].pc = "json"
    /\ CatchFinally(i)
    /\ event' = [op |-> "jsonReject", call |-> i]
    /\ UNCHANGED directCalls

\* the token is never stored
StoreSessionId_Never(current, data) == current

\* the token is stored only while none is held
StoreSessionId_KeepsFirst(current, data) ==
    IF current = Null /\ Truthy(data.session_id) THEN data.session_id ELSE current

\* if (data.session_id) sessionIdRef.current = data.session_id
StoreSessionId(current, data) ==
    IF Truthy(data.session_id) THEN data.session_id ELSE current

\* an Assistant message that loses the reply text
AssistantMessage_DropsText(data) == Message("assistant", Str(<< >>), data.products)

\* an Assistant message that loses the products
AssistantMessage_DropsProducts(data) == Message("assistant", data.message, Undefined)

\* the Assistant message built from the decoded body
AssistantMessage(data) == Message("assistant", data.message, data.products)

\* response.json() resolves with data; reading a property of null throws
JsonResolve(i, data) ==
    /\ i \in 1..Len(calls)
    /\ calls[i].pc = "json"
    /\ IF data = Null
       THEN CatchFinally(i)
       ELSE /\ sessionIdRef' = StoreSessionId(sessionIdRef, data)
            /\ messages' = Append(messages, AssistantMessage(data))
            /\ isLoading' = FALSE
            /\ calls' = [calls EXCEPT ![i].pc = "done", ![i].data = data]
            /\ UNCHANGED <<input, toasts>>
    /\ event' = [op |-> "jsonResolve", call |-> i, data |-> data]
    /\ UNCHANGED directCalls

----------------------------------------------------------------------------
(* ChatInput *)

\* the submission check without the disabled test
CanSubmit_IgnoresDisabled == Truthy(Str(Trim(input)))

\* the submission check without the trim
CanSubmit_NoTrim == Truthy(Str(input)) /\ ~disabled

\* if (input.trim() && !disabled)
CanSubmit == Truthy(Str(Trim(input))) /\ ~disabled

\* handleSubmit handing the draft over as typed
handleSubmit_SendsRawDraft ==
    IF CanSubmit
    THEN /\ handleSendMessage(input)
         /\ input' = << >>
    ELSE UNCHANGED <<messages, isLoading, sessionIdRef, input, calls, toasts>>

\* handleSubmit that leaves the draft in the box after sending it
handleSubmit_KeepsDraft ==
    IF CanSubmit
    THEN /\ handleSendMessage(Trim(input))
         /\ input' = input
    ELSE UNCHANGED <<messages, isLoading, sessionIdRef, input, calls, toasts>>

\* body of handleSubmit
handleSubmit ==
    IF CanSubmit
    THEN /\ handleSendMessage(Trim(input))
         /\ input' = << >>
    ELSE UNCHANGED <<messages, isLoading, sessionIdRef, input, calls, toasts>>

\* onChange={(e) => setInput(e.target.value)}
SetInput(value) ==
    /\ value # input
    /\ input' = value
    /\ event' = [op |-> "change"]
    /\ UNCHANGED directCalls
    /\ UNCHANGED <<messages, isLoading, sessionIdRef, calls, toasts>>

\* the form's submit event
Submit ==
    /\ Len(calls) < MaxCalls
    /\ handleSubmit
    /\ event' = [op |-> "submit", accepted |-> CanSubmit, draft |-> input]
    /\ UNCHANGED directCalls

Keys == {"Enter", "a"}

\* handleKeyDown that submits on every Enter
KeyDown_IgnoresShift(key, shiftKey) ==
    /\ Len(calls) < MaxCalls
    /\ IF key = "Enter"
       THEN handleSubmit
       ELSE UNCHANGED <<messages, isLoading, sessionIdRef, input, calls, toasts>>
    /\ event' = [op |-> "keydown", key |-> key, shiftKey |-> shiftKey,
                 accepted |-> (key = "Enter" /\ ~shiftKey /\ CanSubmit),
                 draft |-> input]
    /\ UNCHANGED directCalls

\* handleKeyDown
KeyDown(key, shiftKey) ==
    /\ Len(calls) < MaxCalls
    /\ IF key = "Enter" /\ ~shiftKey
       THEN handleSubmit
       ELSE UNCHANGED <<messages, isLoading, sessionIdRef, input, calls, toasts>>
    /\ event' = [op |-> "keydown", key |-> key, shiftKey |-> shiftKey,
                 accepted |-> (key = "Enter" /\ ~shiftKey /\ CanSubmit),
                 draft |-> input]
    /\ UNCHANGED directCalls

\* what a caller other than the composer passes to handleSendMessage
DirectTexts == {<< >>, <<" ">>, <<"a">>}

\* handleSendMessage called by something other than the composer
DirectSend(message) ==
    /\ Len(calls) < MaxCalls
    /\ Len(calls) < MaxDirect
    /\ handleSendMessage(message)
    /\ directCalls' = directCalls + 1
    /\ event' = [op |-> "direct", wasLoading |-> isLoading, message |-> message]
    /\ UNCHANGED input

----------------------------------------------------------------------------
(* JSON.parse, for the texts that occur in images: arrays, strings without  *)
(* escapes, non-negative integers, null, true and false                    *)

\* a thrown exception
Throws == [t |-> "throw"]

Fail == [ok |-> FALSE]
Parsed(val, rest) == [ok |-> TRUE, val |-> val, rest |-> rest]

DigitChars == {"0", "1", "2", "3", "4", "5", "6", "7", "8", "9"}

DigitValue(c) ==
    CASE c = "0" -> 0 [] c = "1" -> 1 [] c = "2" -> 2 [] c = "3" -> 3
      [] c = "4" -> 4 [] c = "5" -> 5 [] c = "6" -> 6 [] c = "7" -> 7
      [] c = "8" -> 8 [] c = "9" -> 9

HasPrefix(s, prefix) ==
    Len(s) >= Len(prefix) /\ SubSeq(s, 1, Len(prefix)) = prefix

DropPrefix(s, n) == SubSeq(s, n + 1, Len(s))

RECURSIVE SkipWs(_)
SkipWs(s) == IF s # << >> /\ Head(s) = " " THEN SkipWs(Tail(s)) ELSE s

\* the rest of a string literal, after its opening quote
RECURSIVE ScanString(_, _)
ScanString(s, acc) ==
    IF s = << >> THEN Fail
    ELSE IF Head(s) = "\"" THEN Parsed(Str(acc), Tail(s))
    ELSE ScanString(Tail(s), Append(acc, Head(s)))

\* an integer literal; its value is kept in tenths like every number
RECURSIVE ScanDigits(_, _)
ScanDigits(s, n) ==
    IF s # << >> /\ Head(s) \in DigitChars
    THEN ScanDigits(Tail(s), 10 * n + DigitValue(Head(s)))
    ELSE Parsed(Num(10 * n), s)

ParseNumber(s) ==
    IF Head(s) = "0" /\ Len(s) > 1 /\ s[2] \in DigitChars
    THEN Fail
    ELSE ScanDigits(s, 0)

RECURSIVE ParseValue(_)
RECURSIVE ParseElements(_, _)

ParseValue(s) ==
    LET r == SkipWs(s)
    IN  IF r = << >> THEN Fail
        ELSE IF Head(r) = "["
        THEN LET a == SkipWs(Tail(r))
             IN  IF a # << >> /\ Head(a) = "]"
                 THEN Parsed(Arr(<< >>), Tail(a))
                 ELSE ParseElements(Tail(r), << >>)
        ELSE IF Head(r) = "\"" THEN ScanString(Tail(r), << >>)
        ELSE IF Head(r) \in DigitChars THEN ParseNumber(r)
        ELSE IF HasPrefix(r, <<"n", "u", "l", "l">>) THEN Parsed(Null, DropPrefix(r, 4))
        ELSE IF HasPrefix(r, <<"t", "r", "u", "e">>) THEN Parsed(Bool(TRUE), DropPrefix(r, 4))
        ELSE IF HasPrefix(r, <<"f", "a", "l", "s", "e">>)
        THEN Parsed(Bool(FALSE), DropPrefix(r, 5))
        ELSE Fail

\* the elements of an array after "[" or ",", up to and including "]"
ParseElements(s, acc) ==
    LET v == ParseValue(s)
    IN  IF ~v.ok THEN Fail
        ELSE LET r == SkipWs(v.rest)
             IN  IF r = << >> THEN Fail
                 ELSE IF Head(r) = "," THEN ParseElements(Tail(r), Append(acc, v.val))
                 ELSE IF Head(r) = "]" THEN Parsed(Arr(Append(acc, v.val)), Tail(r))
                 ELSE Fail

\* JSON.parse(text): the value, or Throws for a SyntaxError
JSONParse(text) ==
    LET v == ParseValue(text)
    IN  IF v.ok /\ SkipWs(v.rest) = << >> THEN v.val ELSE Throws

----------------------------------------------------------------------------
(* ProductCard *)

\* image parsing without the try/catch: a text that does not parse throws
ImageUrl_NoCatch(images) ==
    IF images.t = "string"
    THEN LET parsed == JSONParse(images.v)
         IN  IF parsed = Throws THEN Throws
             ELSE IF parsed.t = "array" /\ Len(parsed.v) > 0 THEN parsed.v[1]
             ELSE Null
    ELSE IF images.t = "array" /\ Len(images.v) > 0 THEN images.v[1]
    ELSE Null

\* let imageUrl = null; try { ... } catch (e) { imageUrl = null }
ImageUrl(images) ==
    IF images.t = "string"
    THEN LET parsed == JSONParse(images.v)
         IN  IF parsed = Throws THEN Null
             ELSE IF parsed.t = "array" /\ Len(parsed.v) > 0 THEN parsed.v[1]
             ELSE Null
    ELSE IF images.t = "array" /\ Len(images.v) > 0 THEN images.v[1]
    ELSE Null

\* a price line that always puts the glyph in front
DisplayPrice_AlwaysPrepends(price) ==
    IF ~Truthy(price) THEN Undefined
    ELSE IF price.t # "string" THEN Throws
    ELSE Str(<<"$">> \o price.v)

\* {price && (... price.startsWith('$') ? price : `$${price}` ...)}
DisplayPrice(price) ==
    IF ~Truthy(price) THEN Undefined
    ELSE IF price.t # "string" THEN Throws
    ELSE IF Head(price.v) = "$" THEN price
    ELSE Str(<<"$">> \o price.v)

RECURSIVE Digits(_)
Digits(n) ==
    LET d == <<"0", "1", "2", "3", "4", "5", "6", "7", "8", "9">>
    IN  IF n < 10 THEN <<d[n + 1]>> ELSE Append(Digits(n \div 10), d[(n % 10) + 1])

\* Number.prototype.toFixed(1), for a non-negative number given in tenths
ToFixed1(n) == Digits(n \div 10) \o <<".">> \o Digits(n % 10)

\* {rating && (... rating.toFixed(1) ...)}
DisplayRating(rating) ==
    IF ~Truthy(rating) THEN Undefined
    ELSE IF rating.t # "number" THEN Throws
    ELSE Str(ToFixed1(rating.v))

\* {availability && (<Badge variant={availability.toLowerCase()...}>...)}
\* (the text of the badge; which variant it gets is not modelled)
DisplayAvailability(availability) ==
    IF ~Truthy(availability) THEN Undefined
    ELSE IF availability.t # "string" THEN Throws
    ELSE availability

\* {x && <p>{x}</p>}
Shown(x) == IF Truthy(x) THEN x ELSE Undefined

\* String(n), for a non-negative number given in tenths
NumberText(n) == IF n % 10 = 0 THEN Digits(n \div 10) ELSE ToFixed1(n)

\* `${asin}`
TemplateText(x) ==
    CASE x.t = "string" -> x.v
      [] x.t = "undefined" -> <<"u", "n", "d", "e", "f", "i", "n", "e", "d">>
      [] x.t = "null" -> <<"n", "u", "l", "l">>
      [] x.t = "number" -> NumberText(x.v)

DpPrefix ==
    <<"h", "t", "t", "p", "s", ":", "/", "/", "w", "w", "w", ".", "a",
      "m", "a", "z", "o", "n", ".", "c", "o", "m", "/", "d", "p", "/">>

\* const amazonUrl = `https://www.amazon.com/dp/${asin}`
AmazonUrl(asin) == Str(DpPrefix \o TemplateText(asin))

\* one render of ProductCard: what it shows, or Throws
ProductCard(props) ==
    LET price == DisplayPrice(props.price)
        rating == DisplayRating(props.rating)
        availability == DisplayAvailability(props.availability)
    IN  IF Throws \in {price, rating, availability}
        THEN Throws
        ELSE [t |-> "card",
              amazonUrl |-> AmazonUrl(props.asin),
              title |-> props.title,
              imageUrl |-> ImageUrl(props.images),
              brand |-> Shown(props.brand),
              rating |-> rating,
              availability |-> availability,
              displayPrice |-> price]

\* Index: {message.products && message.products.length > 0 && (... map ...)}
ProductCards(message) ==
    IF Truthy(message.products) /\ Len(message.products.v) > 0
    THEN [j \in 1..Len(message.products.v) |-> ProductCard(message.products.v[j])]
    ELSE << >>

----------------------------------------------------------------------------
(* Product payloads on the wire *)

Product(asin, title, price, rating, images, availability) ==
    [t |-> "object", asin |-> asin, title |-> title, brand |-> Undefined,
     price |-> price, rating |-> rating, images |-> images,
     availability |-> availability]

AsinX1 == Str(<<"X", "1">>)
AsinX2 == Str(<<"X", "2">>)
TitleA == Str(<<"A">>)
TitleB == Str(<<"B">>)

\* a price without the currency glyph
Price89 == Str(<<"8", ".", "9">>)

PriceChars == {"$", "1"}
MaxPriceLen == 2
PriceTexts == {Str(p) : p \in SeqsUpTo(PriceChars, MaxPriceLen)}

U1 == <<"u", "1">>
U2 == <<"u", "2">>
Quoted(s) == <<"\"">> \o s \o <<"\"">>
HttpU == <<"h", "t", "t", "p", ":", "/", "/", "u">>

\* texts a server may put in images
ImageTexts ==
    {<<"[">> \o Quoted(U1) \o <<",">> \o Quoted(U2) \o <<"]">>,
     <<"[">> \o Quoted(U1) \o <<"]">>,
     <<"[", " ">> \o Quoted(U1) \o <<" ", "]">>,
     <<"[", "]">>,
     <<"[", "1", "]">>,
     <<"n", "o", "t", " ", "j", "s", "o", "n">>,
     HttpU,
     Quoted(U1),
     <<"[">> \o Quoted(U1),
     <<"n", "u", "l", "l">>,
     <<"1", "2">>,
     << >>}

ImageValues ==
    {Str(s) : s \in ImageTexts} \cup
    {Arr(<<Str(U1)>>), Arr(<<Str(U1), Str(U2)>>), Arr(<< >>), Undefined, Null, Num(10)}

ValidProduct == Product(AsinX1, TitleA, Price89, Undefined, Undefined, Undefined)
OtherProduct == Product(AsinX2, TitleB, Undefined, Undefined, Undefined, Undefined)

\* raw payloads: the valid one with each field varied in turn
RawProducts ==
    {Product(a, ti, Undefined, Undefined, Undefined, Undefined) :
        a \in {AsinX1, Undefined, Num(10)}, ti \in {TitleA, Undefined, Num(10)}} \cup
    {Product(AsinX1, TitleA, p, Undefined, Undefined, Undefined) :
        p \in PriceTexts \cup {Price89, Undefined, Null, Num(199)}} \cup
    {Product(AsinX1, TitleA, Undefined, r, Undefined, a) :
        r \in {Undefined, Num(45), Num(0), Str(<<"4">>)},
        a \in {Undefined, Str(<<"i", "n">>), Num(10)}} \cup
    {Product(AsinX1, TitleA, Undefined, Undefined, im, Undefined) : im \in ImageValues}

ProductBodies ==
    {Body(Str(TokenA), ReplyText, Arr(<<p>>)) : p \in RawProducts} \cup
    {Body(Undefined, ReplyText, Arr(<<p, OtherProduct>>)) : p \in RawProducts} \cup
    {Body(Undefined, ReplyText, Arr(<< >>)), Body(Undefined, ReplyText, Undefined)}

----------------------------------------------------------------------------

Init ==
    /\ messages = InitialMessages
    /\ isLoading = FALSE
    /\ sessionIdRef = Null
    /\ input = << >>
    /\ calls = << >>
    /\ toasts = 0
    /\ directCalls = 0
    /\ event = [op |-> "init"]

Completion ==
    \E i \in 1..MaxCalls :
        \/ FetchReject(i)
        \/ \E status \in Statuses : FetchResolve(i, status)
        \/ JsonReject(i)
        \/ \E data \in Bodies : JsonResolve(i, data)

Next ==
    \/ \E value \in Drafts : SetInput(value)
    \/ Submit
    \/ \E key \in Keys, shiftKey \in BOOLEAN : KeyDown(key, shiftKey)
    \/ Completion

\* the page as shipped: the composer is the only caller of handleSendMessage
Spec == Init /\ [][Next]_vars

NextAnyCaller ==
    \/ \E value \in Drafts : SetInput(value)
    \/ Len(calls) < MaxDirect /\ Submit
    \/ Len(calls) < MaxDirect /\ \E key \in Keys, shiftKey \in BOOLEAN : KeyDown(key, shiftKey)
    \/ Completion
    \/ \E message \in DirectTexts : DirectSend(message)

\* handleSendMessage as an entry point open to any caller
SpecAnyCaller == Init /\ [][NextAnyCaller]_vars

NextProducts ==
    \/ \E value \in Drafts : SetInput(value)
    \/ calls = << >> /\ Submit
    \/ \E i \in 1..MaxCalls :
          \/ FetchReject(i)
          \/ \E status \in Statuses : FetchResolve(i, status)
          \/ JsonReject(i)
          \/ \E data \in ProductBodies : JsonResolve(i, data)

\* the first exchange of a conversation, answered with product payloads
SpecProducts == Init /\ [][NextProducts]_vars

----------------------------------------------------------------------------
(* Steps, as the properties below name them *)

\* this step is a submission trigger of the composer that reaches handleSubmit
ComposerSubmitStep ==
    \/ event'.op = "submit"
    \/ event'.op = "keydown" /\ event'.key = "Enter" /\ ~event'.shiftKey

\* this step is a direct call of handleSendMessage
DirectSendStep == event'.op = "direct"

\* the text a send step of this step hands over (the draft, or the argument)
SentText == IF DirectSendStep THEN event'.message ELSE Trim(input)

\* this step ends exchange i with a failure
FailureStep(i) ==
    /\ \/ event'.op \in {"fetchReject", "jsonReject"}
       \/ event'.op = "fetchResolve" /\ ~(event'.status \in 200..299)
       \/ event'.op = "jsonResolve" /\ event'.data = Null
    /\ event'.call = i

\* this step ends exchange i with a success
SuccessStep(i) ==
    /\ event'.op = "jsonResolve"
    /\ event'.data # Null
    /\ event'.call = i

CompletionOps == {"fetchReject", "fetchResolve", "jsonReject", "jsonResolve"}

----------------------------------------------------------------------------
(* C1 *)

----------------------------------------------------------------------------
(* C2 *)

\* C2: pending (isLoading) is true exactly when an exchange is in flight,
\* and once true it is only reset by a step that completes an exchange.
C2_PendingIffInFlight ==
    /\ [](isLoading <=> InFlight # {})
    /\ [][(isLoading /\ ~isLoading')
            => (event'.op \in CompletionOps /\ event'.call \in InFlight
                /\ calls'[event'.call].pc \in {"done", "failed"})]_vars

\* an exchange is between its two awaits and pending is still true
C2_Witness ==
    /\ isLoading
    /\ \E i \in 1..Len(calls) : calls[i].pc = "json"

----------------------------------------------------------------------------
(* C3 *)

\* C3: a submission whose trimmed draft is non-empty, made while not
\* pending, appends in that same step a User message whose content is
\* exactly the trimmed draft, sets pending and hands the request to the
\* transport with nothing completed yet; pending then stays true until a
\* step that resolves the exchange.
C3_UserMessageAppendedSynchronously ==
    /\ [][(ComposerSubmitStep /\ Trim(input) # << >> /\ ~isLoading)
            => /\ messages' = Append(messages,
                                      [role |-> "user",
                                       content |-> Str(Trim(input)),
                                       products |-> Undefined])
               /\ isLoading'
               /\ Len(calls') = Len(calls) + 1
               /\ calls'[Len(calls')].pc = "fetch"
               /\ calls'[Len(calls')].content = Str(Trim(input))
               /\ toasts' = toasts]_vars
    /\ [][(isLoading /\ ~isLoading')
            => \E i \in InFlight : FailureStep(i) \/ SuccessStep(i)]_vars

\* a draft with surrounding blanks was submitted and its trimmed text is the
\* User message at the end of the list
C3_Witness ==
    /\ event.op \in {"submit", "keydown"}
    /\ event.accepted
    /\ event.draft # Trim(event.draft)
    /\ isLoading
    /\ messages[Len(messages)] = [role |-> "user",
                                  content |-> Str(Trim(event.draft)),
                                  products |-> Undefined]

----------------------------------------------------------------------------
(* C4, C5: the session token *)

\* the response carries a session token: a non-empty string
IncludesToken(data) == data.session_id.t = "string" /\ Len(data.session_id.v) > 0

\* the token of the latest successful exchange before request j that carried
\* one, null when there is none
RECURSIVE LastTokenBefore(_)
LastTokenBefore(j) ==
    IF j <= 1 THEN Null
    ELSE IF calls[j - 1].pc = "done" /\ IncludesToken(calls[j - 1].data)
         THEN calls[j - 1].data.session_id
         ELSE LastTokenBefore(j - 1)

\* a successful response without a token leaves the held token as it was
OmittedTokenKeepsHeld ==
    \A i \in 1..MaxCalls :
        (SuccessStep(i) /\ ~IncludesToken(event'.data)) => sessionIdRef' = sessionIdRef

\* C4 as stated: once a successful exchange has returned a token, every
\* request issued afterwards carries that token; a response without a token
\* leaves the held token unchanged; the first request carries null.
C4_EveryLaterRequestCarriesThatToken ==
    /\ [](\A i, j \in 1..Len(calls) :
            (i < j /\ calls[i].pc = "done" /\ IncludesToken(calls[i].data))
                => calls[j].session_id = calls[i].data.session_id)
    /\ [][OmittedTokenKeepsHeld]_vars
    /\ [](calls # << >> => calls[1].session_id = Null)

\* C4 amended: every request carries the token of the latest successful
\* exchange before it that returned one (a later token replaces an earlier
\* one), and null when there is none; a response without a token leaves
\* the held token unchanged; the first request carries null.
C4_RequestCarriesLatestToken ==
    /\ [](\A j \in 1..Len(calls) : calls[j].session_id = LastTokenBefore(j))
    /\ [][OmittedTokenKeepsHeld]_vars
    /\ [](calls # << >> => calls[1].session_id = Null)

\* a third request went out after two exchanges that returned different
\* tokens, and then a reply without a token came in
C4_Witness ==
    /\ Len(calls) = 3
    /\ calls[1].pc = "done" /\ calls[1].data.session_id = Str(TokenA)
    /\ calls[2].pc = "done" /\ calls[2].data.session_id = Str(TokenB)
    /\ calls[3].session_id = Str(TokenB)
    /\ calls[3].pc = "done" /\ calls[3].data.session_id = Undefined
    /\ sessionIdRef = Str(TokenB)

\* the held token is unset or a token some successful response delivered
HeldTokenCameFromServer ==
    \/ sessionIdRef = Null
    \/ \E i \in 1..Len(calls) :
           /\ calls[i].pc = "done"
           /\ IncludesToken(calls[i].data)
           /\ calls[i].data.session_id = sessionIdRef

\* C5 as stated: the token is set once, by the first response that includes
\* one, and never changes afterwards; it is unset or a value received from
\* the server.
C5_TokenSetOnce ==
    /\ [][sessionIdRef # Null => sessionIdRef' = sessionIdRef]_vars
    /\ [](HeldTokenCameFromServer)

\* C5 amended: the token is set by every successful response that includes
\* one, to exactly that response's token, so it is the latest one received;
\* no other step changes it; it is unset or a value received from the server.
C5_TokenFollowsLatestResponse ==
    /\ [][\A i \in 1..MaxCalls :
            (SuccessStep(i) /\ IncludesToken(event'.data))
                => sessionIdRef' = event'.data.session_id]_vars
    /\ [][sessionIdRef' # sessionIdRef
            => \E i \in 1..MaxCalls : SuccessStep(i) /\ IncludesToken(event'.data)]_vars
    /\ [](HeldTokenCameFromServer)

\* a held token has just been replaced by the token of a later response
C5_Witness ==
    /\ event.op = "jsonResolve"
    /\ event.call = 2
    /\ calls[1].pc = "done" /\ calls[1].data.session_id = Str(TokenA)
    /\ calls[2].session_id = Str(TokenA)
    /\ calls[2].pc = "done" /\ calls[2].data.session_id = Str(TokenB)
    /\ sessionIdRef = Str(TokenB)

----------------------------------------------------------------------------
(* C6, C7, C8: how an exchange ends *)

\* C6: a failing exchange (fetch rejected, status outside 200..299, body
\* not decodable) ends in that step with pending false, the message list
\* as it was, ending with the User message of the exchange, one more
\* failure notification, and no new request.
C6_FailureLeavesUserMessageAndOneToast ==
    [][\A i \in 1..MaxCalls :
        FailureStep(i)
            => /\ isLoading' = FALSE
               /\ messages' = messages
               /\ messages'[Len(messages')] = [role |-> "user",
                                               content |-> calls[i].content,
                                               products |-> Undefined]
               /\ toasts' = toasts + 1
               /\ Len(calls') = Len(calls)
               /\ calls'[i].pc = "failed"
               /\ \A j \in 1..Len(calls') : ~(calls'[j].pc \in {"fetch", "json"})]_vars

\* the first exchange got status 500
C6_Witness ==
    /\ event.op = "fetchResolve"
    /\ event.status = 500
    /\ toasts = 1
    /\ ~isLoading
    /\ Len(messages) = 2
    /\ messages[2].role = "user"

\* C7: a step that ends an exchange with a failure leaves the session token
\* as it was.
C7_FailureKeepsToken ==
    [][\A i \in 1..MaxCalls : FailureStep(i) => sessionIdRef' = sessionIdRef]_vars

\* an exchange failed on its body while a token was held
C7_Witness ==
    /\ event.op \in {"jsonReject", "jsonResolve"}
    /\ calls[event.call].pc = "failed"
    /\ calls[event.call].session_id = Str(TokenA)
    /\ sessionIdRef = Str(TokenA)

\* C8: the step that resolves an exchange, either way, leaves pending
\* false; a successful one appends exactly one message, an Assistant
\* message with the response's message text and products.
C8_ResolvedExchangeClearsPending ==
    /\ [][\A i \in 1..MaxCalls :
            (FailureStep(i) \/ SuccessStep(i)) => isLoading' = FALSE]_vars
    /\ [][\A i \in 1..MaxCalls :
            SuccessStep(i)
                => messages' = Append(messages,
                                      [role |-> "assistant",
                                       content |-> event'.data.message,
                                       products |-> event'.data.products])]_vars

\* a reply with a text has just been appended
C8_Witness ==
    /\ event.op = "jsonResolve"
    /\ event.data # Null
    /\ event.data.message = ReplyText
    /\ ~isLoading
    /\ Len(messages) = 3
    /\ messages[3].role = "assistant"
    /\ messages[3].content = ReplyText

----------------------------------------------------------------------------
(* C9 *)

IsPrefix(s, t) == Len(s) <= Len(t) /\ SubSeq(t, 1, Len(s)) = s

\* C9: in every step the message list before is a prefix of the list
\* after, and the first message is always the seeded greeting.
C9_MessagesAppendOnly ==
    /\ [][IsPrefix(messages, messages')]_vars
    /\ [](/\ Len(messages) >= 1
          /\ messages[1] = [role |-> "assistant", content |-> Greeting,
                            products |-> Undefined])

\* two exchanges, one failed and one answered, have left their messages
C9_Witness ==
    /\ Len(messages) = 4
    /\ toasts = 1
    /\ messages[4].role = "assistant"

----------------------------------------------------------------------------
(* C10 *)

----------------------------------------------------------------------------
(* C16, C17: the composer *)

\* C16: a submission trigger sends exactly when the trimmed draft is
\* non-empty and the conversation is not pending; then it calls
\* handleSendMessage once, with the trimmed draft, and clears the draft;
\* otherwise it calls nothing and leaves the draft as it is.
C16_ComposerGatesSubmission ==
    [][ComposerSubmitStep
        => IF Trim(input) # << >> /\ ~isLoading
           THEN /\ Len(calls') = Len(calls) + 1
                /\ SubSeq(calls', 1, Len(calls)) = calls
                /\ calls'[Len(calls')].content = Str(Trim(input))
                /\ input' = << >>
           ELSE /\ calls' = calls
                /\ input' = input]_vars

\* a non-empty draft was submitted while pending: nothing sent, draft kept
C16_Witness ==
    /\ event.op = "submit"
    /\ ~event.accepted
    /\ isLoading
    /\ Trim(input) # << >>
    /\ input = event.draft
    /\ Len(calls) = 1

\* C17: a step of Enter without Shift is a step of the explicit submit
\* action (same resulting state, same call of handleSendMessage); Enter
\* with Shift, like any other key, sends nothing and keeps the draft.
C17_EnterSubmitsLikeSubmit ==
    /\ [][(event'.op = "keydown" /\ event'.key = "Enter" /\ ~event'.shiftKey)
            => handleSubmit]_vars
    /\ [][(event'.op = "keydown" /\ ~(event'.key = "Enter" /\ ~event'.shiftKey))
            => UNCHANGED <<messages, isLoading, sessionIdRef, input, calls, toasts>>]_vars

\* Shift+Enter was pressed on a draft that Enter alone would have sent
C17_Witness ==
    /\ event.op = "keydown"
    /\ event.key = "Enter"
    /\ event.shiftKey
    /\ Trim(input) # << >>
    /\ ~isLoading
    /\ calls = << >>

----------------------------------------------------------------------------
(* C18, C19: replies and exchanges *)

WithRole(role) == {k \in 1..Len(messages) : messages[k].role = role}

Resolved == {i \in 1..Len(calls) : calls[i].pc \in {"done", "failed"}}

\* C18: the Assistant messages beyond the greeting and the failure
\* notifications together count the resolved exchanges, and a resolving
\* step adds one to exactly one of the two.
C18_OneOutcomePerResolvedExchange ==
    /\ []((Cardinality(WithRole("assistant")) - 1) + toasts = Cardinality(Resolved))
    /\ [][\A i \in 1..MaxCalls :
            (FailureStep(i) \/ SuccessStep(i))
                => \/ Len(messages') = Len(messages) + 1 /\ toasts' = toasts
                   \/ Len(messages') = Len(messages) /\ toasts' = toasts + 1]_vars

\* three exchanges have resolved: two answered, one failed
C18_Witness ==
    /\ Cardinality(Resolved) = 3
    /\ toasts = 1
    /\ Cardinality(WithRole("assistant")) = 3

\* C19: every Assistant message after the greeting directly follows a User
\* message; when a reply is appended the last message is the User message
\* of the exchange it answers; replies never outnumber User messages.
C19_ReplyFollowsItsUserMessage ==
    /\ [](\A k \in 2..Len(messages) :
            messages[k].role = "assistant" => messages[k - 1].role = "user")
    /\ [][\A i \in 1..MaxCalls :
            SuccessStep(i)
                => /\ messages[Len(messages)] = [role |-> "user",
                                                 content |-> calls[i].content,
                                                 products |-> Undefined]
                   /\ Cardinality(WithRole("user")) = i
                   /\ messages'[Len(messages')].role = "assistant"]_vars
    /\ [](Cardinality(WithRole("assistant")) - 1 <= Cardinality(WithRole("user")))

\* two exchanges answered in turn
C19_Witness ==
    /\ Len(messages) = 5
    /\ messages[2].role = "user" /\ messages[3].role = "assistant"
    /\ messages[4].role = "user" /\ messages[5].role = "assistant"

----------------------------------------------------------------------------
(* C11 .. C15: products *)

\* the payload has an asin and a title, both strings
ValidPayload(p) == p.asin.t = "string" /\ p.title.t = "string"

\* the payloads held by the messages on screen
ShownPayloads ==
    UNION {{messages[k].products.v[j] : j \in 1..Len(messages[k].products.v)} :
            k \in {n \in 1..Len(messages) : messages[n].products.t = "array"}}

\* C11: the product list of the Assistant message appended for a successful
\* response is the response's list without the payloads that lack a string
\* asin or title, in the original order, and no failure is notified.
C11_InvalidProductsExcluded ==
    [][\A i \in 1..MaxCalls :
        (SuccessStep(i) /\ event'.data.products.t = "array")
            => /\ messages'[Len(messages')].products =
                    Arr(SelectSeq(event'.data.products.v, ValidPayload))
               /\ toasts' = toasts]_vars

\* C12: every payload on screen with a valid asin and title renders
\* without raising, and an optional field of the wrong type (rating not a
\* number, price or availability not a string) is shown as absent.
C12_NormalizationNeverRaises ==
    \A p \in ShownPayloads :
        ValidPayload(p)
            => /\ ProductCard(p) # Throws
               /\ p.rating.t # "number" => ProductCard(p).rating = Undefined
               /\ p.price.t # "string" => ProductCard(p).displayPrice = Undefined
               /\ p.availability.t # "string" => ProductCard(p).availability = Undefined

\* C13: when the first exchange of a conversation has been answered with a
\* session id, a text and one valid product, there are exactly three
\* messages (greeting, the User query, the reply with that product, its
\* price shown with the glyph), the token is the returned id, pending is
\* false and nothing failed.
C13_EndToEnd ==
    (/\ Len(calls) = 1
     /\ calls[1].pc = "done"
     /\ calls[1].data = [t |-> "object", session_id |-> Str(TokenA),
                         message |-> ReplyText, products |-> Arr(<<ValidProduct>>)])
        => /\ messages = <<[role |-> "assistant", content |-> Greeting,
                            products |-> Undefined],
                           [role |-> "user", content |-> calls[1].content,
                            products |-> Undefined],
                           [role |-> "assistant", content |-> ReplyText,
                            products |-> Arr(<<ValidProduct>>)]>>
           /\ Len(ProductCards(messages[3])) = 1
           /\ ProductCards(messages[3])[1] # Throws
           /\ ProductCards(messages[3])[1].title = TitleA
           /\ ProductCards(messages[3])[1].displayPrice = Str(<<"$", "8", ".", "9">>)
           /\ calls[1].session_id = Null
           /\ sessionIdRef = Str(TokenA)
           /\ ~isLoading
           /\ toasts = 0

\* the answer with one valid product has just arrived
C13_Witness ==
    /\ event.op = "jsonResolve"
    /\ Len(calls) = 1
    /\ calls[1].pc = "done"
    /\ calls[1].data.session_id = Str(TokenA)
    /\ calls[1].data.products = Arr(<<ValidProduct>>)
    /\ Len(messages) = 3

\* the text looks like a URL
LooksLikeUrl(s) == HasPrefix(s, <<"h", "t", "t", "p">>)

\* what C14 and its amendment agree on: decoded and bare arrays, and texts
\* that do not decode and do not look like a URL
ImageCasesAgreed(im) ==
    /\ ImageUrl(im) # Throws
    /\ (im.t = "string" /\ JSONParse(im.v) # Throws /\ JSONParse(im.v).t = "array"
            /\ Len(JSONParse(im.v).v) > 0)
          => ImageUrl(im) = JSONParse(im.v).v[1]
    /\ (im.t = "array" /\ Len(im.v) > 0) => ImageUrl(im) = im.v[1]
    /\ (im.t = "array" /\ Len(im.v) = 0) => ImageUrl(im) = Null
    /\ (im.t = "string" /\ JSONParse(im.v) = Throws /\ ~LooksLikeUrl(im.v))
          => ImageUrl(im) = Null

\* C14 as stated: for the images of every payload on screen, a text that
\* decodes to a non-empty array, or a bare non-empty array, gives the first
\* element; an empty array gives absent; a text that does not decode gives
\* the text itself when it looks like a URL and absent otherwise; nothing
\* raises.
C14_ImageFallsBackToRawUrl ==
    \A p \in ShownPayloads :
        /\ ImageCasesAgreed(p.images)
        /\ (p.images.t = "string" /\ JSONParse(p.images.v) = Throws
                /\ LooksLikeUrl(p.images.v))
              => ImageUrl(p.images) = p.images

\* C14 amended: as stated, except that a text that does not decode gives
\* absent also when it looks like a URL.
C14_ImageAbsentWhenNotDecodable ==
    \A p \in ShownPayloads :
        /\ ImageCasesAgreed(p.images)
        /\ (p.images.t = "string" /\ JSONParse(p.images.v) = Throws)
              => ImageUrl(p.images) = Null

\* a product whose images is a bare URL is on screen, without an image
C14_Witness ==
    \E p \in ShownPayloads :
        /\ p.images = Str(HttpU)
        /\ ProductCard(p) # Throws
        /\ ProductCard(p).imageUrl = Null

\* a price that is there: a non-empty string
PricePresent(price) == price.t = "string" /\ Len(price.v) > 0

\* C15: for the price of every payload on screen, the shown price is the
\* price itself when it starts with the glyph and the glyph followed by
\* the price when it does not; showing a shown price again changes
\* nothing; an absent price is not shown.
C15_PriceGlyphIdempotent ==
    \A p \in ShownPayloads :
        /\ (PricePresent(p.price) /\ p.price.v[1] = "$")
              => DisplayPrice(p.price) = p.price
        /\ (PricePresent(p.price) /\ p.price.v[1] # "$")
              => DisplayPrice(p.price) = Str(<<"$">> \o p.price.v)
        /\ PricePresent(p.price)
              => DisplayPrice(DisplayPrice(p.price)) = DisplayPrice(p.price)
        /\ (p.price.t \in {"undefined", "null"} \/ p.price = Str(<< >>))
              => DisplayPrice(p.price) = Undefined

\* a price that already starts with the glyph is on screen as it came
C15_Witness ==
    \E p \in ShownPayloads :
        /\ p.price = Str(<<"$", "1">>)
        /\ ProductCard(p) # Throws
        /\ ProductCard(p).displayPrice = Str(<<"$", "1">>)

====
